---- MODULE Spec2Model ----
(***************************************************************************)
(* SpeechActivityDetection pipeline                                        *)
(* (pyannote/audio/pipeline/speech_activity_detection.py).                 *)
(*                                                                         *)
(* Numbers are fixed point.  Scores and thresholds are in thousandths      *)
(* (One = 1.0); times and durations are in tenths of a second.             *)
(***************************************************************************)
EXTENDS Integers, Sequences, FiniteSets, TLC

\* ------------------------------------------------------------------ bounds
\* frames of a score matrix drawn by InitScale
MaxFrames == 2
\* concurrent callers of __call__ in SpecConc
NumCallers == 2

\* ------------------------------------------------------------- fixed point
\* the literal 1. of "1. - data[:, 0]"
One == 1000
\* a floating point NaN (what np.nanmean skips)
NaN == -999999

\* score values a feature store entry is built from: log(0.1), log(0.9), 0,
\* 0.1, 0.9
ScoreValues == {-2303, -105, 0, 100, 900}

\* np.exp on the score values, rounded to thousandths
Exp(x) ==
  CASE x = NaN   -> NaN
    [] x = -2303 -> 100
    [] x = -105  -> 900
    [] x = 0     -> 1000
    [] x = 100   -> 1105
    [] x = 900   -> 2460

\* 1. - x in floating point (NaN propagates)
OneMinus(x) == IF x = NaN THEN NaN ELSE One - x

\* x > y and x < y in floating point: every comparison with NaN is False
Gt(x, y) == x # NaN /\ y # NaN /\ x > y
Lt(x, y) == x # NaN /\ y # NaN /\ x < y

RECURSIVE SumSeq(_)
SumSeq(s) == IF s = <<>> THEN 0 ELSE Head(s) + SumSeq(Tail(s))

RECURSIVE Flatten(_)
Flatten(m) == IF m = <<>> THEN <<>> ELSE Head(m) \o Flatten(Tail(m))

\* as NanMeanNegative, but over the non-speech column alone
NanMeanNegativeColumn0(data) ==
  LET kept == SelectSeq([i \in 1..Len(data) |-> data[i][1]], LAMBDA x : x # NaN)
  IN  kept # <<>> /\ SumSeq(kept) < 0

\* np.nanmean(data) < 0: the mean of the entries that are not NaN; with no
\* such entry the mean is NaN and the comparison is False.  The mean has the
\* sign of the sum.
NanMeanNegative(data) ==
  LET kept == SelectSeq(Flatten(data), LAMBDA x : x # NaN)
  IN  kept # <<>> /\ SumSeq(kept) < 0

\* ------------------------------------------------------- hyper-parameters
HyperNames ==
  {"onset", "offset", "min_duration_on", "min_duration_off",
   "pad_onset", "pad_offset"}

\* an attribute that was never set
Absent == [kind |-> "absent", lo |-> 0, hi |-> 0]
\* chocolate.uniform(lo, hi): a declared range, not a number
Uniform(lo, hi) == [kind |-> "uniform", lo |-> lo, hi |-> hi]
\* a number assigned by the hyper-parameter search driver
Value(v) == [kind |-> "value", lo |-> v, hi |-> v]

NoParams == [n \in HyperNames |-> Absent]

\* the six declarations of __init__
Declared ==
  [onset            |-> Uniform(0, 1000),
   offset           |-> Uniform(0, 1000),
   min_duration_on  |-> Uniform(0, 20),
   min_duration_off |-> Uniform(0, 20),
   pad_onset        |-> Uniform(-10, 10),
   pad_offset       |-> Uniform(-10, 10)]

Params(on, off, mon, moff, pon, poff) ==
  [onset            |-> Value(on),
   offset           |-> Value(off),
   min_duration_on  |-> Value(mon),
   min_duration_off |-> Value(moff),
   pad_onset        |-> Value(pon),
   pad_offset       |-> Value(poff)]

\* the settings the search driver tries, each inside the declared ranges
Trials ==
  {Params(500, 500, 0, 0, 0, 0),
   Params(500, 500, 0, 0, -2, 3),
   Params(600, 400, 15, 15, 3, -2)}

\* ---------------------------------------------------------------- instance
None == "None"
ScoresPath == "/precomputed/sad"

\* the object before __init__ has set any attribute
Bare ==
  [scores         |-> None,
   precomputed_   |-> None,
   params         |-> NoParams,
   has_binarize_  |-> FALSE,
   binarize_      |-> NoParams,
   has_log_scale_ |-> FALSE,
   log_scale_     |-> FALSE]

\* as Init__, but with the check of scores after the attributes are set
InitChecksLate(scores) ==
  LET built == [Bare EXCEPT !.scores = scores, !.precomputed_ = scores,
                            !.params = Declared]
  IN  IF scores = None
      THEN [ok |-> FALSE, error |-> "ValueError", self |-> built]
      ELSE [ok |-> TRUE, error |-> "", self |-> built]

\* __init__(scores)
Init__(scores) ==
  IF scores = None
  THEN [ok |-> FALSE, error |-> "ValueError", self |-> Bare]
  ELSE [ok |-> TRUE, error |-> "",
        self |-> [Bare EXCEPT !.scores = scores,
                               !.precomputed_ = scores,
                               !.params = Declared]]

\* as Binarize, but with the two paddings passed the wrong way round
BinarizePadsSwapped(self) ==
  [onset            |-> self.params.onset,
   offset           |-> self.params.offset,
   min_duration_on  |-> self.params.min_duration_on,
   min_duration_off |-> self.params.min_duration_off,
   pad_onset        |-> self.params.pad_offset,
   pad_offset       |-> self.params.pad_onset]

\* Binarize(onset=self.onset, ..., pad_offset=self.pad_offset)
Binarize(self) ==
  [onset            |-> self.params.onset,
   offset           |-> self.params.offset,
   min_duration_on  |-> self.params.min_duration_on,
   min_duration_off |-> self.params.min_duration_off,
   pad_onset        |-> self.params.pad_onset,
   pad_offset       |-> self.params.pad_offset]

\* as Instantiate, but forgetting the cached scale with the old binarizer
InstantiateResetsScale(self) ==
  [self EXCEPT !.has_binarize_ = TRUE, !.binarize_ = Binarize(self),
               !.has_log_scale_ = FALSE, !.log_scale_ = FALSE]

\* as Instantiate, but keeping a binarizer that exists already
InstantiateOnce(self) ==
  IF self.has_binarize_ THEN self
  ELSE [self EXCEPT !.has_binarize_ = TRUE, !.binarize_ = Binarize(self)]

\* instantiate()
Instantiate(self) ==
  [self EXCEPT !.has_binarize_ = TRUE, !.binarize_ = Binarize(self)]

\* ----------------------------------------------------------- feature store
\* precomputed.sliding_window: frame i (from 1) is at start + (i - 1) * step
Window == [start |-> 0, duration |-> 10, step |-> 10]

Scores(data) == [ok |-> TRUE, error |-> "", data |-> data, sliding_window |-> Window]
LoadError(e) == [ok |-> FALSE, error |-> e, data |-> <<>>, sliding_window |-> Window]

\* what the feature store holds for the files of the protocol: rows are
\* frames, column 1 is the non-speech class (data[:, 0])
Catalog ==
  [lin     |-> Scores(<< <<900, 100>>, <<100, 900>>, <<100, 900>>,
                         <<900, 100>>, <<900, 100>> >>),
   log     |-> Scores(<< <<-105, -2303>>, <<-2303, -105>>, <<-2303, -105>>,
                         <<-105, -2303>>, <<-105, -2303>> >>),
   zero    |-> Scores(<< <<0, 0>>, <<0, 0>> >>),
   mix     |-> Scores(<< <<100, -2303>>, <<100, -2303>> >>),
   two     |-> Scores(<< <<100, 900>>, <<100, 900>>, <<900, 100>>,
                         <<100, 900>>, <<100, 900>> >>),
   nan     |-> Scores(<< <<NaN, NaN>>, <<100, NaN>> >>),
   missing |-> LoadError("FileNotFoundError"),
   corrupt |-> LoadError("ValueError")]

\* current_file: 'uri', 'annotation' (the reference) and 'annotated' (the
\* evaluated extent), segments as <<start, end>>
CurrentFile(f) ==
  [uri        |-> f,
   annotation |-> IF f \in {"lin", "log"} THEN << <<10, 30>> >>
                  ELSE IF f = "two" THEN << <<0, 20>>, <<30, 40>> >>
                  ELSE <<>>,
   annotated  |-> << <<0, 50>> >>]

\* as Precomputed, but with silence in place of scores that fail to load
PrecomputedOrSilence(st, f) ==
  IF st[f].ok THEN st[f] ELSE Scores(<< <<900, 100>> >>)

\* self.precomputed_(current_file)
Precomputed(st, f) == st[f]

\* ------------------------------------------------------------ binarization
FrameTimes(n, sw) == [i \in 1..n |-> sw.start + (i - 1) * sw.step]

\* hysteresis thresholding: a region opens at the frame whose score rises
\* above onset and closes at the frame whose score falls below offset
RECURSIVE Hysteresis(_, _, _, _, _, _)
Hysteresis(track, times, b, i, active, start) ==
  IF i > Len(track)
  THEN IF active THEN << <<start, times[Len(track)]>> >> ELSE <<>>
  ELSE IF active
       THEN IF Lt(track[i], b.offset.lo)
            THEN << <<start, times[i]>> >>
                 \o Hysteresis(track, times, b, i + 1, FALSE, 0)
            ELSE Hysteresis(track, times, b, i + 1, TRUE, start)
       ELSE IF Gt(track[i], b.onset.lo)
            THEN Hysteresis(track, times, b, i + 1, TRUE, times[i])
            ELSE Hysteresis(track, times, b, i + 1, FALSE, 0)

\* active regions shorter than min_duration_on merge into the inactive
\* regions around them
DropShort(regions, mon) == SelectSeq(regions, LAMBDA s : s[2] - s[1] >= mon)

\* inactive regions shorter than min_duration_off merge into the active
\* regions around them
RECURSIVE FillGaps(_, _)
FillGaps(r, moff) ==
  IF Len(r) < 2 THEN r
  ELSE IF r[2][1] - r[1][2] < moff
       THEN FillGaps(<< <<r[1][1], r[2][2]>> >> \o SubSeq(r, 3, Len(r)), moff)
       ELSE << r[1] >> \o FillGaps(Tail(r), moff)

\* a region's start is extended before by pad_onset and its end after by
\* pad_offset (negative padding erodes)
PadSegment(s, pon, poff) == <<s[1] - pon, s[2] + poff>>

\* padding never inverts a region: one it would invert degenerates to empty
\* and is not emitted
Pad(regions, pon, poff) ==
  SelectSeq([i \in 1..Len(regions) |-> PadSegment(regions[i], pon, poff)],
            LAMBDA s : s[2] > s[1])

\* Binarize.apply(speech_prob): a timeline, or the error of comparing a
\* score with a parameter that is not a number
BinarizeApply(b, track, sw) ==
  IF \E n \in HyperNames : b[n].kind # "value"
  THEN [ok |-> FALSE, error |-> "TypeError", timeline |-> <<>>]
  ELSE LET times  == FrameTimes(Len(track), sw)
           raw    == Hysteresis(track, times, b, 1, FALSE, 0)
           kept   == FillGaps(DropShort(raw, b.min_duration_on.lo),
                              b.min_duration_off.lo)
       IN  [ok |-> TRUE, error |-> "",
            timeline |-> Pad(kept, b.pad_onset.lo, b.pad_offset.lo)]

\* ---------------------------------------------------------------- __call__
\* pyannote.core's string generator: 'A', 'B', 'C', ...
StringGenerator ==
  <<"A", "B", "C", "D", "E", "F", "G", "H", "I", "J", "K", "L", "M",
    "N", "O", "P", "Q", "R", "S", "T", "U", "V", "W", "X", "Y", "Z">>

NoAnnotation == [uri |-> "", modality |-> "", items |-> <<>>]

\* as ToAnnotation, but with the modality used as every segment's label
ToAnnotationFixedLabel(timeline, file) ==
  [uri      |-> file.uri,
   modality |-> "speech",
   items    |-> [i \in 1..Len(timeline) |->
                   [segment |-> timeline[i], label |-> "speech"]]]

\* speech.uri = get_unique_identifier(current_file)
\* speech.to_annotation(generator='string', modality='speech'): the
\* timeline's segments in order, each with the generator's next label
ToAnnotation(timeline, file) ==
  [uri      |-> file.uri,
   modality |-> "speech",
   items    |-> [i \in 1..Len(timeline) |->
                   [segment |-> timeline[i], label |-> StringGenerator[i]]]]

\* as Missing, but without the check: the scale is resolved on every call
MissingAlways(self) == TRUE

\* not hasattr(self, "log_scale_")
Missing(self) == ~self.has_log_scale_

\* self.log_scale_ = True if np.nanmean(precomputed.data) < 0 else False
SetLogScale(self, data) ==
  [self EXCEPT !.has_log_scale_ = TRUE, !.log_scale_ = NanMeanNegative(data)]

\* np.exp(precomputed.data) if self.log_scale_ else precomputed.data
Linear(log_scale, data) ==
  IF log_scale
  THEN [i \in 1..Len(data) |-> [j \in 1..Len(data[i]) |-> Exp(data[i][j])]]
  ELSE data

\* 1. - data[:, 0]
SpeechProb(data) == [i \in 1..Len(data) |-> OneMinus(data[i][1])]

Raise(self, e, wrote, track) ==
  [self |-> self, ok |-> FALSE, error |-> e, annotation |-> NoAnnotation,
   track |-> track, wrote |-> wrote, loads |-> 1]

\* __call__ from the scale check to the return (lines 102-119)
Detect(self, precomputed, f) ==
  LET wrote == Missing(self)
      s1    == IF wrote THEN SetLogScale(self, precomputed.data) ELSE self
      data  == Linear(s1.log_scale_, precomputed.data)
      speech_prob == SpeechProb(data)
  IN  IF ~s1.has_binarize_
      THEN Raise(s1, "AttributeError", wrote, speech_prob)
      ELSE
        LET speech == BinarizeApply(s1.binarize_, speech_prob,
                                    precomputed.sliding_window)
        IN  IF ~speech.ok
            THEN Raise(s1, speech.error, wrote, speech_prob)
            ELSE [self |-> s1, ok |-> TRUE, error |-> "",
                  annotation |-> ToAnnotation(speech.timeline, CurrentFile(f)),
                  track |-> speech_prob, wrote |-> wrote, loads |-> 1]

\* as Call, but failing for a missing binarizer before the scale is resolved
CallBinarizerFirst(self, st, f) ==
  LET precomputed == Precomputed(st, f)
  IN  IF ~precomputed.ok
      THEN Raise(self, precomputed.error, FALSE, <<>>)
      ELSE IF ~self.has_binarize_
           THEN Raise(self, "AttributeError", FALSE, <<>>)
           ELSE Detect(self, precomputed, f)

\* __call__(current_file): the instance afterwards, what the caller gets
\* (an annotation or an error), the track handed to the binarizer, whether
\* log_scale_ was written and how often the feature store was read
Call(self, st, f) ==
  LET precomputed == Precomputed(st, f)
  IN  IF ~precomputed.ok
      THEN Raise(self, precomputed.error, FALSE, <<>>)
      ELSE Detect(self, precomputed, f)

\* -------------------------------------------------------------------- loss
\* the tenths of a second a timeline covers
Cells(timeline) ==
  UNION {s[1] .. (s[2] - 1) : s \in {timeline[i] : i \in 1..Len(timeline)}}

Segments(annotation) ==
  [i \in 1..Len(annotation.items) |-> annotation.items[i].segment]

\* DetectionErrorRate(collar=0.0, skip_overlap=False)(reference, hypothesis,
\* uem=uem): (false alarm + miss) / total inside uem, in thousandths
DetectionErrorRate(reference, hypothesis, uem) ==
  LET ref   == Cells(reference) \cap Cells(uem)
      hyp   == Cells(Segments(hypothesis)) \cap Cells(uem)
      error == Cardinality(hyp \ ref) + Cardinality(ref \ hyp)
      total == Cardinality(ref)
  IN  IF total = 0
      THEN IF error = 0 THEN 0 ELSE One
      ELSE (error * One) \div total

\* as Loss, but rebuilding the binarizer before scoring
LossInstantiates(self, f, hypothesis) ==
  [self  |-> Instantiate(self),
   value |-> DetectionErrorRate(CurrentFile(f).annotation, hypothesis,
                                CurrentFile(f).annotated)]

\* loss(current_file, hypothesis): the instance afterwards and the value
Loss(self, f, hypothesis) ==
  LET reference == CurrentFile(f).annotation
      uem       == CurrentFile(f).annotated
  IN  [self |-> self, value |-> DetectionErrorRate(reference, hypothesis, uem)]

\* ------------------------------------------------------------------- state
VARIABLES
  phase,      \* "new", "failed" (__init__ raised) or "ready"
  self,       \* the instance's attributes
  store,      \* the feature store: file -> scores or load error
  result,     \* what the last call gave its caller
  held,       \* the last annotation a caller got from __call__
  writes,     \* assignments to self.log_scale_ so far
  resolver,   \* the call that last assigned self.log_scale_
  built_with, \* the hyper-parameter values at the last instantiate()
  callers,    \* each concurrent caller's position in __call__ and its locals
  overlapped  \* whether two calls of __call__ were ever in progress together

vars ==
  <<phase, self, store, result, held, writes, resolver, built_with, callers,
    overlapped>>

Callers == 1..NumCallers

NoResult ==
  [op |-> "none", file |-> "", ok |-> TRUE, error |-> "",
   annotation |-> NoAnnotation, track |-> <<>>, value |-> 0, loads |-> 0,
   caller |-> 0]

NoResolver == [file |-> "", error |-> "", caller |-> 0]

Idle ==
  [pc |-> "idle", file |-> "", precomputed |-> LoadError(""), wrote |-> FALSE,
   log_scale |-> FALSE, from |-> 0, data |-> <<>>]

TypeOK ==
  /\ phase \in {"new", "failed", "ready"}
  /\ self.has_binarize_ \in BOOLEAN
  /\ self.has_log_scale_ \in BOOLEAN
  /\ self.log_scale_ \in BOOLEAN
  /\ writes \in Nat
  /\ overlapped \in BOOLEAN
  /\ \A c \in Callers :
       callers[c].pc \in {"idle", "check", "resolve", "transform", "binarize"}

Init ==
  /\ phase = "new"
  /\ self = Bare
  /\ store = Catalog
  /\ result = NoResult
  /\ held = NoAnnotation
  /\ writes = 0
  /\ resolver = NoResolver
  /\ built_with = self.binarize_
  /\ callers = [c \in Callers |-> Idle]
  /\ overlapped = FALSE

\* ----------------------------------------------------------------- actions
\* SpeechActivityDetection(scores): a failed construction leaves no
\* instance, and the caller may construct again
Construct(scores) ==
  /\ phase \in {"new", "failed"}
  /\ LET r == Init__(scores)
     IN  /\ phase' = IF r.ok THEN "ready" ELSE "failed"
         /\ self' = r.self
         /\ result' = [NoResult EXCEPT !.op = "__init__", !.ok = r.ok,
                                       !.error = r.error]
  /\ UNCHANGED <<store, held, writes, resolver, built_with, callers, overlapped>>

\* the search driver assigns the six hyper-parameters of a trial
SetParams(p) ==
  /\ phase = "ready"
  /\ self' = [self EXCEPT !.params = p]
  /\ result' = [NoResult EXCEPT !.op = "set"]
  /\ UNCHANGED <<phase, store, held, writes, resolver, built_with, callers,
                 overlapped>>

DoInstantiate ==
  /\ phase = "ready"
  /\ self' = Instantiate(self)
  /\ result' = [NoResult EXCEPT !.op = "instantiate"]
  /\ built_with' = self.params
  /\ UNCHANGED <<phase, store, held, writes, resolver, callers, overlapped>>

\* pipeline(current_file), start to end
Apply(f) ==
  /\ phase = "ready"
  /\ \A c \in Callers : callers[c].pc = "idle"
  /\ LET r == Call(self, store, f)
     IN  /\ self' = r.self
         /\ result' = [NoResult EXCEPT !.op = "apply", !.file = f, !.ok = r.ok,
                                       !.error = r.error,
                                       !.annotation = r.annotation,
                                       !.track = r.track, !.loads = r.loads]
         /\ held' = IF r.ok THEN r.annotation ELSE held
         /\ writes' = IF r.wrote THEN writes + 1 ELSE writes
         /\ resolver' = IF r.wrote
                        THEN [file |-> f, error |-> r.error, caller |-> 0]
                        ELSE resolver
  /\ UNCHANGED <<phase, store, built_with, callers, overlapped>>

\* the hypotheses a caller scores against file f: the annotation it holds,
\* or the file's own reference
Hypotheses(f) ==
  {held, ToAnnotation(CurrentFile(f).annotation, CurrentFile(f))}

\* pipeline.loss(current_file, hypothesis)
DoLoss(f, h) ==
  /\ phase = "ready"
  /\ LET r == Loss(self, f, h)
     IN  /\ self' = r.self
         /\ result' = [NoResult EXCEPT !.op = "loss", !.file = f,
                                       !.value = r.value]
  /\ UNCHANGED <<phase, store, held, writes, resolver, built_with, callers,
                 overlapped>>

Next ==
  \/ \E scores \in {None, ScoresPath} : Construct(scores)
  \/ \E p \in Trials : SetParams(p)
  \/ DoInstantiate
  \/ \E f \in DOMAIN store : Apply(f)
  \/ \E f \in DOMAIN store : \E h \in Hypotheses(f) : DoLoss(f, h)

Spec == Init /\ [][Next]_vars

\* --------------------------------------------- first call on drawn scores
Rows == {<<a, b>> : a \in ScoreValues \cup {NaN}, b \in ScoreValues \cup {NaN}}

\* every score matrix of 1 to MaxFrames frames and two classes
Matrices == UNION {[1..n -> Rows] : n \in 1..MaxFrames}

\* an instance right after __init__
Constructed == Init__(ScoresPath).self

\* a constructed instance, instantiated or not, that has not been applied
\* yet, over a feature store holding one file with any score matrix
InitScale ==
  /\ phase = "ready"
  /\ self \in {Constructed,
               Instantiate([Constructed EXCEPT
                              !.params = Params(500, 500, 0, 0, 0, 0)])}
  /\ store \in {[f \in {"drawn"} |-> Scores(m)] : m \in Matrices}
  /\ result = NoResult
  /\ held = NoAnnotation
  /\ writes = 0
  /\ resolver = NoResolver
  /\ built_with = self.binarize_
  /\ callers = [c \in Callers |-> Idle]
  /\ overlapped = FALSE

NextScale == \E f \in DOMAIN store : Apply(f)

SpecScale == InitScale /\ [][NextScale]_vars

\* -------------------------------------------------- concurrent __call__
\* the files concurrent callers apply the pipeline to
ConcFiles == {"lin", "log", "missing"}

\* an instantiated instance that has not been applied yet
InitConc ==
  /\ phase = "ready"
  /\ self = Instantiate([Constructed EXCEPT
                           !.params = Params(500, 500, 0, 0, 0, 0)])
  /\ store = [f \in ConcFiles |-> Catalog[f]]
  /\ result = NoResult
  /\ held = NoAnnotation
  /\ writes = 0
  /\ resolver = NoResolver
  /\ built_with = self.binarize_
  /\ callers = [c \in Callers |-> Idle]
  /\ overlapped = FALSE

Returned(c, f, r) ==
  [NoResult EXCEPT !.op = "apply", !.file = f, !.ok = r.ok, !.error = r.error,
                   !.annotation = r.annotation, !.track = r.track,
                   !.loads = 1, !.caller = c]

\* precomputed = self.precomputed_(current_file); a load error ends the call
CLoad(c, f) ==
  /\ callers[c].pc = "idle"
  /\ LET precomputed == Precomputed(store, f)
     IN  IF precomputed.ok
         THEN /\ callers' = [callers EXCEPT ![c] =
                   [Idle EXCEPT !.pc = "check", !.file = f,
                                !.precomputed = precomputed]]
              /\ overlapped' =
                   (overlapped \/ \E d \in Callers \ {c} : callers[d].pc # "idle")
              /\ UNCHANGED result
         ELSE /\ result' = Returned(c, f, Raise(self, precomputed.error, FALSE, <<>>))
              /\ UNCHANGED <<callers, overlapped>>
  /\ UNCHANGED <<phase, self, store, held, writes, resolver, built_with>>

\* if not hasattr(self, "log_scale_"):
CCheck(c) ==
  /\ callers[c].pc = "check"
  /\ callers' = [callers EXCEPT ![c].pc =
                   IF Missing(self) THEN "resolve" ELSE "transform"]
  /\ UNCHANGED <<phase, self, store, result, held, writes, resolver,
                 built_with, overlapped>>

\* self.log_scale_ = np.nanmean(precomputed.data) < 0
CResolve(c) ==
  /\ callers[c].pc = "resolve"
  /\ self' = SetLogScale(self, callers[c].precomputed.data)
  /\ writes' = writes + 1
  /\ resolver' = [file |-> callers[c].file, error |-> "", caller |-> c]
  /\ callers' = [callers EXCEPT ![c].pc = "transform", ![c].wrote = TRUE]
  /\ UNCHANGED <<phase, store, result, held, built_with, overlapped>>

\* data = np.exp(precomputed.data) if self.log_scale_ else precomputed.data
CTransform(c) ==
  /\ callers[c].pc = "transform"
  /\ callers' = [callers EXCEPT
       ![c].pc = "binarize",
       ![c].log_scale = self.log_scale_,
       ![c].from = resolver.caller,
       ![c].data = Linear(self.log_scale_, callers[c].precomputed.data)]
  /\ UNCHANGED <<phase, self, store, result, held, writes, resolver,
                 built_with, overlapped>>

\* speech_prob, self.binarize_.apply(speech_prob), to_annotation and return
CBinarize(c) ==
  /\ callers[c].pc = "binarize"
  /\ LET speech_prob == SpeechProb(callers[c].data)
         speech == IF self.has_binarize_
                   THEN BinarizeApply(self.binarize_, speech_prob,
                                      callers[c].precomputed.sliding_window)
                   ELSE [ok |-> FALSE, error |-> "AttributeError", timeline |-> <<>>]
         r == IF speech.ok
              THEN [ok |-> TRUE, error |-> "",
                    annotation |-> ToAnnotation(speech.timeline,
                                                CurrentFile(callers[c].file)),
                    track |-> speech_prob]
              ELSE Raise(self, speech.error, callers[c].wrote, speech_prob)
     IN  /\ result' = Returned(c, callers[c].file, r)
         /\ held' = IF r.ok THEN r.annotation ELSE held
  /\ callers' = [callers EXCEPT ![c] = Idle]
  /\ UNCHANGED <<phase, self, store, writes, resolver, built_with, overlapped>>

NextConc ==
  \E c \in Callers :
    \/ \E f \in DOMAIN store : CLoad(c, f)
    \/ CCheck(c)
    \/ CResolve(c)
    \/ CTransform(c)
    \/ CBinarize(c)

SpecConc == InitConc /\ [][NextConc]_vars

\* ------------------------------------------------------------------ claims
\* the scores the last call's file has in the store
LastData == store[result.file].data

AppliedOk == result.op = "apply" /\ result.ok

\* C1: once log_scale_ is resolved, no call of __call__, instantiate or loss,
\* nor a change of the hyper-parameters, changes or removes it
C1_ScaleFlagFrozen ==
  [][self.has_log_scale_ =>
       (self'.has_log_scale_ /\ self'.log_scale_ = self.log_scale_)]_vars

\* C1 witness: a later file of the opposite sign was applied, after an
\* instantiate, and the flag still is what another file resolved
C1_Witness ==
  /\ AppliedOk
  /\ self.has_log_scale_
  /\ resolver.file # result.file
  /\ NanMeanNegative(LastData) # self.log_scale_
  /\ built_with \in Trials

HasNaN(m) == \E i \in 1..Len(m) : \E j \in 1..Len(m[i]) : m[i][j] = NaN

\* the sum of all entries of a matrix without NaN, both columns
RECURSIVE Total(_, _)
Total(m, n) == IF n = 0 THEN 0 ELSE m[n][1] + m[n][2] + Total(m, n - 1)

\* C2: after the first apply to a matrix without NaN, the flag is "log"
\* exactly when the mean of all entries is strictly negative, and the track
\* handed to the binarizer is 1 - exp(column 0) if so, 1 - column 0 if not
C2_FirstApplyResolvesScale ==
  (result.op = "apply" /\ ~HasNaN(LastData)) =>
    LET m   == LastData
        neg == Total(m, Len(m)) < 0
    IN  /\ writes = 1
        /\ self.has_log_scale_
        /\ self.log_scale_ = neg
        /\ Len(result.track) = Len(m)
        /\ \A i \in 1..Len(m) :
             result.track[i] = IF neg THEN One - Exp(m[i][1]) ELSE One - m[i][1]

\* C2 witness: column 0 alone has a positive mean, yet the matrix resolves
\* to log-scaled and the track is 1 - exp(column 0)
C2_Witness ==
  /\ result.op = "apply"
  /\ ~HasNaN(LastData)
  /\ \A i \in 1..Len(LastData) : LastData[i][1] > 0
  /\ self.log_scale_
  /\ result.track[1] = One - Exp(LastData[1][1])

\* C3 as claimed: every interval of the returned annotation is labelled
\* "speech"
C3_EveryLabelIsSpeech ==
  AppliedOk =>
    \A i \in 1..Len(result.annotation.items) :
      result.annotation.items[i].label = "speech"

\* C3 as amended: "speech" is the annotation's modality; the i-th interval
\* carries the string generator's i-th label, so labels are pairwise distinct
C3_ModalitySpeechLabelsGenerated ==
  AppliedOk =>
    LET items == result.annotation.items
    IN  /\ result.annotation.modality = "speech"
        /\ result.annotation.uri = result.file
        /\ \A i \in 1..Len(items) : items[i].label = StringGenerator[i]
        /\ \A i, j \in 1..Len(items) :
             i # j => items[i].label # items[j].label

\* C3 witness: an annotation of two regions
C3_Witness == AppliedOk /\ Len(result.annotation.items) >= 2

\* C4: the binarizer holds exactly the hyper-parameter values of the most
\* recent instantiate, and an apply binarizes with those
C4_BinarizerIsLastInstantiate ==
  /\ self.has_binarize_ => self.binarize_ = built_with
  /\ ~self.has_binarize_ => built_with = NoParams
  /\ AppliedOk =>
       Segments(result.annotation) =
         BinarizeApply(built_with, result.track, Window).timeline

\* C4 witness: the hyper-parameters were changed after the last instantiate
\* and the apply after that gave what the earlier values give, not what the
\* current ones would
C4_Witness ==
  /\ AppliedOk
  /\ self.params \in Trials
  /\ built_with \in Trials
  /\ self.params # built_with
  /\ Segments(result.annotation) #
       BinarizeApply(self.params, result.track, Window).timeline

\* the track of C5: frames one second apart; the score rises above onset at
\* 1 s and falls below offset at 3 s; instantiated with min_duration_on = 0,
\* min_duration_off = 0, pad_onset = -0.2 s and pad_offset = 0.3 s
C5_Case ==
  /\ AppliedOk
  /\ built_with = Params(500, 500, 0, 0, -2, 3)
  /\ Len(result.track) = 5
  /\ result.track[1] # NaN /\ result.track[1] <= 500
  /\ result.track[2] > 500
  /\ result.track[3] >= 500
  /\ result.track[4] # NaN /\ result.track[4] < 500
  /\ result.track[5] # NaN /\ result.track[5] <= 500

C6_LoadFailurePropagates ==
  [][(result'.op = "apply" /\ ~store[result'.file].ok) =>
       /\ ~result'.ok
       /\ result'.error = store[result'.file].error
       /\ result'.loads = 1
       /\ self' = self
       /\ writes' = writes
       /\ held' = held]_vars

\* C6 witness: a load failure on an instantiated instance whose flag is
\* still unresolved
C6_Witness ==
  /\ result.op = "apply"
  /\ result.error = "FileNotFoundError"
  /\ self.has_binarize_
  /\ ~self.has_log_scale_

\* C7: loss leaves the instance as it was, and its value is the detection
\* error rate of the file's reference, its annotated extent and the
\* hypothesis
C7_LossIsPure ==
  [][result'.op = "loss" =>
       /\ self' = self
       /\ writes' = writes
       /\ \E h \in Hypotheses(result'.file) :
            result'.value =
              DetectionErrorRate(CurrentFile(result'.file).annotation, h,
                                 CurrentFile(result'.file).annotated)]_vars

\* C7 witness: a loss with errors, on an instance with a resolved flag whose
\* hyper-parameters differ from those of its binarizer
C7_Witness ==
  /\ result.op = "loss"
  /\ result.value > 0
  /\ self.has_log_scale_
  /\ self.has_binarize_
  /\ self.params # self.binarize_

\* C8: construction without scores raises ValueError and leaves an object
\* with no feature store and no hyper-parameter; nothing can be called on it
C8_NoScoresNoInstance ==
  /\ (result.op = "__init__" /\ ~result.ok) =>
       /\ result.error = "ValueError"
       /\ phase = "failed"
  /\ phase = "failed" =>
       /\ result.op = "__init__" /\ ~result.ok
       /\ self.scores = None
       /\ self.precomputed_ = None
       /\ \A n \in HyperNames : self.params[n] = Absent
  /\ phase = "ready" =>
       /\ self.scores # None
       /\ self.precomputed_ = self.scores
       /\ \A n \in HyperNames : self.params[n] # Absent

\* C8 witness: a construction that failed
C8_Witness == phase = "failed" /\ result.error = "ValueError"

\* C9: log_scale_ is written more than once only when two calls overlapped
C9_OneWriteUnlessOverlapped == ~overlapped => writes <= 1

\* C9 witness: both callers found the flag unresolved and wrote it, and one
\* of them has transformed its scores with the value the other wrote, which
\* is not what its own scores resolve to
C9_Witness ==
  /\ writes = 2
  /\ \E c \in Callers :
       /\ callers[c].pc = "binarize"
       /\ callers[c].wrote
       /\ callers[c].from # c
       /\ callers[c].log_scale # NanMeanNegative(callers[c].precomputed.data)

\* C10: an apply that fails for want of a binarizer has resolved the flag
\* from its file's scores, and that value stays and decides how every later
\* apply transforms its scores
C10_FailedApplyResolvesScale ==
  /\ (result.op = "apply" /\ result.error = "AttributeError") =>
       ~self.has_binarize_ /\ self.has_log_scale_
  /\ resolver.error = "AttributeError" =>
       /\ self.has_log_scale_
       /\ self.log_scale_ = NanMeanNegative(store[resolver.file].data)
  /\ (result.op = "apply" /\ store[result.file].ok) =>
       result.track = SpeechProb(Linear(self.log_scale_, LastData))

\* C10 witness: after instantiate, an apply to a file of the opposite sign
\* succeeded under the flag the failed apply left
C10_Witness ==
  /\ AppliedOk
  /\ resolver.error = "AttributeError"
  /\ resolver.file # result.file
  /\ NanMeanNegative(LastData) # self.log_scale_

====
